---- MODULE Spec2Model ----
(***************************************************************************)
(* The inspector layer of revm (crates/inspector/src/inspector.rs): the    *)
(* observer hooks, the context adapter with its frame_input_stack, the     *)
(* instrumented instruction table and the frame lifecycle wrapper          *)
(* InspectorEthFrame, driven by the engine's frame protocol.               *)
(***************************************************************************)
EXTENDS Integers, Sequences, FiniteSets, TLC

VARIABLES
    context,    \* InspectorContext: inspector, inner, frame_input_stack
    frames,     \* the driver's stack of active InspectorEthFrame values
    phase,      \* the driver's position in the frame protocol
    pending,    \* the frame request or frame result the driver holds
    ret,        \* what the last wrapper call returned to the driver
    trace,      \* frame-level observations: hook calls and engine calls, in order
    lastExec,   \* observations of the last dispatched instruction
    nreq,       \* frame requests made so far
    hostCalls   \* the Host operations issued on the context, with what each returned

vars == <<context, frames, phase, pending, ret, trace, lastExec, nreq, hostCalls>>

----------------------------------------------------------------------------
(* Bounds *)

MaxReq == 3      \* frame requests in one execution
MaxSteps == 3    \* instructions dispatched in one execution
MaxHost == 3     \* host operations in one SpecHost behaviour

----------------------------------------------------------------------------
(* Values *)

None == [tag |-> "None"]
Some(x) == [tag |-> "Some", val |-> x]
Ok(x) == [tag |-> "Ok", val |-> x]
Err(e) == [tag |-> "Err", err |-> e]
FrameGen(f) == [gen |-> "Frame", frame |-> f]
ResultGen(r) == [gen |-> "Result", result |-> r]

Kinds == {"Call", "Create", "EOFCreate"}
Data == {0, 1}
Outcomes == {"success", "revert"}
Errors == {"db"}
Observers == {"default", "frames", "steps"}

FrameInput(k, i, d) == [kind |-> k, id |-> i, data |-> d]
FrameResult(k, o) == [kind |-> k, outcome |-> o]

Pop(s) == SubSeq(s, 1, Len(s) - 1)
Last(s) == s[Len(s)]

----------------------------------------------------------------------------
(* The inner execution context: its state and its host operations.         *)

Addresses == {"A", "B", "C"}
Words == {0, 1}
Slots == Addresses \X Words

NewInner ==
    [logs |-> <<>>, journal |-> << <<>> >>,
     storage |-> [k \in Slots |-> 0], transient |-> [k \in Slots |-> 0],
     balance |-> [a \in Addresses |-> CASE a = "A" -> 7 [] a = "B" -> 0 [] a = "C" -> 3],
     created |-> {}]

PushJournal(inner, entry) ==
    [inner EXCEPT !.journal[Len(inner.journal)] = Append(@, entry)]

Inner_block_hash(inner, requested_number) ==
    [inner |-> inner,
     ret |-> IF requested_number = 0 THEN None ELSE Some(<<"blockhash", requested_number>>)]

Inner_load_account_delegated(inner, address) ==
    [inner |-> inner, ret |-> Some([is_empty |-> inner.balance[address] = 0])]

Inner_balance(inner, address) ==
    [inner |-> inner, ret |-> Some([data |-> inner.balance[address]])]

Inner_code(inner, address) ==
    [inner |-> inner, ret |-> Some([data |-> <<"code", address>>])]

Inner_code_hash(inner, address) ==
    [inner |-> inner, ret |-> Some([data |-> <<"keccak", address>>])]

Inner_sload(inner, address, index) ==
    [inner |-> inner, ret |-> Some([data |-> inner.storage[<<address, index>>]])]

Inner_sstore(inner, address, index, value) ==
    [inner |-> PushJournal([inner EXCEPT !.storage[<<address, index>>] = value],
                           [entry |-> "StorageChanged", address |-> address, key |-> index,
                            had_value |-> inner.storage[<<address, index>>]]),
     ret |-> Some([data |-> [present_value |-> inner.storage[<<address, index>>],
                             new_value |-> value]])]

Inner_tload(inner, address, index) ==
    [inner |-> inner, ret |-> inner.transient[<<address, index>>]]

Inner_tstore(inner, address, index, value) ==
    [inner |-> [inner EXCEPT !.transient[<<address, index>>] = value], ret |-> "unit"]

Inner_log(inner, log) ==
    [inner |-> [inner EXCEPT !.logs = Append(@, log)], ret |-> "unit"]

\* the journal's record of a self-destruct: the account is destroyed when it
\* was created in this transaction, otherwise its balance is transferred
Inner_selfdestruct(inner, address, target) ==
    LET balance == inner.balance[address]
        entry == IF address \in inner.created
                 THEN [entry |-> "AccountDestroyed", address |-> address,
                       target |-> target, had_balance |-> balance]
                 ELSE [entry |-> "BalanceTransfer", from |-> address,
                       to |-> target, balance |-> balance]
        moved == IF address = target THEN inner.balance
                 ELSE [inner.balance EXCEPT ![target] = @ + balance, ![address] = 0]
    IN [inner |-> PushJournal([inner EXCEPT !.balance = moved], entry),
        ret |-> Some([data |-> [had_value |-> balance # 0]])]

----------------------------------------------------------------------------
(* impl Host for InspectorContext *)

Forward(ctx, r) == [ctx |-> [ctx EXCEPT !.inner = r.inner], ret |-> r.ret]

Host_block_hash(ctx, requested_number) ==
    Forward(ctx, Inner_block_hash(ctx.inner, requested_number))

Host_load_account_delegated(ctx, address) ==
    Forward(ctx, Inner_load_account_delegated(ctx.inner, address))

Host_balance(ctx, address) == Forward(ctx, Inner_balance(ctx.inner, address))

Host_code(ctx, address) == Forward(ctx, Inner_code(ctx.inner, address))

Host_code_hash(ctx, address) == Forward(ctx, Inner_code_hash(ctx.inner, address))

Host_sload(ctx, address, index) == Forward(ctx, Inner_sload(ctx.inner, address, index))

\* a faulty sstore: index and value change places on the way in
Faulty_Host_sstore(ctx, address, index, value) ==
    Forward(ctx, Inner_sstore(ctx.inner, address, value, index))

Host_sstore(ctx, address, index, value) ==
    Forward(ctx, Inner_sstore(ctx.inner, address, index, value))

Host_tload(ctx, address, index) == Forward(ctx, Inner_tload(ctx.inner, address, index))

Host_tstore(ctx, address, index, value) ==
    Forward(ctx, Inner_tstore(ctx.inner, address, index, value))

Host_log(ctx, log) == Forward(ctx, Inner_log(ctx.inner, log))

Host_selfdestruct(ctx, address, target) ==
    Forward(ctx, Inner_selfdestruct(ctx.inner, address, target))

\* JournalExt for the journal of the inner context
logs(ctx) == ctx.inner.logs

last_journal(ctx) == Last(ctx.inner.journal)

----------------------------------------------------------------------------
(* trait Inspector: the hooks.  A hook the observer did not write keeps    *)
(* its default body; a written hook acts as its choice c says.             *)

KeepOr(S) == {"keep"} \cup S

\* An observer overrides the hooks it cares about and keeps the default body
\* of the rest: "frames" writes the frame hooks, "steps" the interpreter hooks.
FrameHooks(insp) == insp = "frames"
StepHooks(insp) == insp = "steps"

\* what a written pre-hook may do: mutate the input, or return an override
PreChoices(insp) ==
    IF FrameHooks(insp)
    THEN {[ov |-> None, data |-> 1], [ov |-> Some("revert"), data |-> 0]}
    ELSE {[ov |-> None, data |-> 0]}

\* what a written post-hook may do: keep the outcome or replace it
PostChoices(insp) == IF FrameHooks(insp) THEN KeepOr({"revert"}) ELSE {"keep"}

\* what a written interpreter hook may do: keep instruction_result or set it
InterpChoices(insp) == IF StepHooks(insp) THEN KeepOr({"Stop"}) ELSE {"keep"}

\* a written step hook may also move the program counter of the interpreter
\* it is handed, and may do so and set instruction_result as well
StepChoices(insp) ==
    IF StepHooks(insp) THEN KeepOr({"Stop", "Jump", "JumpStop"}) ELSE {"keep"}

Inspector_initialize_interp(insp, interp, c) ==
    IF ~StepHooks(insp) \/ c = "keep" THEN interp
    ELSE [interp EXCEPT !.instruction_result = c]

Inspector_step(insp, interp, c) ==
    IF ~StepHooks(insp) \/ c = "keep" THEN interp
    ELSE IF c = "Jump" THEN [interp EXCEPT !.pc = @ + 1]
    ELSE IF c = "JumpStop" THEN [interp EXCEPT !.pc = @ + 1, !.instruction_result = "Stop"]
    ELSE [interp EXCEPT !.instruction_result = c]

Inspector_step_end(insp, interp, c) ==
    IF ~StepHooks(insp) \/ c = "keep" THEN interp
    ELSE [interp EXCEPT !.instruction_result = c]

Inspector_log(insp, interp, c) ==
    IF ~StepHooks(insp) \/ c = "keep" THEN interp
    ELSE [interp EXCEPT !.instruction_result = c]

\* a faulty default body: call answers with an outcome of its own
Faulty_Inspector_call(insp, inputs, c) ==
    IF ~FrameHooks(insp) THEN [ret |-> Some("success"), inputs |-> inputs]
    ELSE [ret |-> c.ov,
          inputs |-> IF c.ov = None THEN [inputs EXCEPT !.data = c.data] ELSE inputs]

Inspector_call(insp, inputs, c) ==
    IF ~FrameHooks(insp) THEN [ret |-> None, inputs |-> inputs]
    ELSE [ret |-> c.ov,
          inputs |-> IF c.ov = None THEN [inputs EXCEPT !.data = c.data] ELSE inputs]

Inspector_call_end(insp, inputs, outcome, c) ==
    IF ~FrameHooks(insp) \/ c = "keep" THEN outcome ELSE c

Inspector_create(insp, inputs, c) ==
    IF ~FrameHooks(insp) THEN [ret |-> None, inputs |-> inputs]
    ELSE [ret |-> c.ov,
          inputs |-> IF c.ov = None THEN [inputs EXCEPT !.data = c.data] ELSE inputs]

Inspector_create_end(insp, inputs, outcome, c) ==
    IF ~FrameHooks(insp) \/ c = "keep" THEN outcome ELSE c

Inspector_eofcreate(insp, inputs, c) ==
    IF ~FrameHooks(insp) THEN [ret |-> None, inputs |-> inputs]
    ELSE [ret |-> c.ov,
          inputs |-> IF c.ov = None THEN [inputs EXCEPT !.data = c.data] ELSE inputs]

Inspector_eofcreate_end(insp, inputs, outcome, c) ==
    IF ~FrameHooks(insp) \/ c = "keep" THEN outcome ELSE c

----------------------------------------------------------------------------
(* impl InspectorCtx for InspectorContext.  Each operator returns the      *)
(* context it leaves and the observations (ev) it made.                    *)

PreEv(name, given, h, depth) ==
    [ev |-> name, given |-> given, input |-> h.inputs, ret |-> h.ret, depth |-> depth]

PostEv(name, input, given, outcome) ==
    [ev |-> name, input |-> input, given |-> given, outcome |-> outcome]

PreHooks == {"call", "create", "eofcreate"}
PostHooks == {"call_end", "create_end", "eofcreate_end"}

\* a faulty push: the descriptor is dropped
Faulty_push(stack, frame_input) == stack

\* self.frame_input_stack.push(frame_input.clone())
push(stack, frame_input) == Append(stack, frame_input)

\* a faulty override: the EOFCreate arm wraps the outcome as a Create result
Faulty_override(kind, output) ==
    Some(FrameResult(IF kind = "EOFCreate" THEN "Create" ELSE kind, output))

\* return Some(FrameResult::Call(output)), ::Create(output), ::EOFCreate(output)
override(kind, output) == Some(FrameResult(kind, output))

frame_start(ctx, frame_input, c) ==
    LET insp == ctx.inspector
        h == CASE frame_input.kind = "Call" -> Inspector_call(insp, frame_input, c)
               [] frame_input.kind = "Create" -> Inspector_create(insp, frame_input, c)
               [] frame_input.kind = "EOFCreate" -> Inspector_eofcreate(insp, frame_input, c)
        name == CASE frame_input.kind = "Call" -> "call"
                  [] frame_input.kind = "Create" -> "create"
                  [] frame_input.kind = "EOFCreate" -> "eofcreate"
    IN  IF h.ret.tag = "Some"
        THEN [ctx |-> ctx, frame_input |-> h.inputs,
              ret |-> override(frame_input.kind, h.ret.val),
              ev |-> <<PreEv(name, frame_input, h, Len(ctx.frame_input_stack))>>]
        ELSE [ctx |-> [ctx EXCEPT !.frame_input_stack = push(@, h.inputs)],
              frame_input |-> h.inputs, ret |-> None,
              ev |-> <<PreEv(name, frame_input, h, Len(ctx.frame_input_stack))>>]

\* a faulty failure: the violation is swallowed and a result is returned
Faulty_Panic(ctx, msg) ==
    [ctx |-> ctx, panic |-> FALSE, msg |-> msg, ev |-> <<>>,
     frame_output |-> FrameResult("Call", "revert")]

\* the panics of frame_end: expect("Frame pushed") and the let-else arms
Panic(ctx, msg) == [ctx |-> ctx, panic |-> TRUE, msg |-> msg, ev |-> <<>>]

\* a faulty pop: the descriptor is read and left on the stack
Faulty_pop(stack) == stack

\* self.frame_input_stack.pop()
pop(stack) == Pop(stack)

frame_end(ctx, frame_output, c) ==
    LET insp == ctx.inspector
        stack == ctx.frame_input_stack
    IN  IF stack = <<>> THEN Panic(ctx, "Frame pushed")
        ELSE
        LET frame_input == Last(stack)
            popped == [ctx EXCEPT !.frame_input_stack = pop(stack)]
        IN  CASE frame_output.kind = "Call" ->
                   IF frame_input.kind # "Call"
                   THEN Panic(popped, "FrameInput::Call expected")
                   ELSE LET o == Inspector_call_end(insp, frame_input, frame_output.outcome, c)
                        IN [ctx |-> popped, panic |-> FALSE,
                            frame_output |-> [frame_output EXCEPT !.outcome = o],
                            ev |-> <<PostEv("call_end", frame_input, frame_output.outcome, o)>>]
              [] frame_output.kind = "Create" ->
                   IF frame_input.kind # "Create"
                   THEN Panic(popped, "FrameInput::Create expected")
                   ELSE LET o == Inspector_create_end(insp, frame_input, frame_output.outcome, c)
                        IN [ctx |-> popped, panic |-> FALSE,
                            frame_output |-> [frame_output EXCEPT !.outcome = o],
                            ev |-> <<PostEv("create_end", frame_input, frame_output.outcome, o)>>]
              [] frame_output.kind = "EOFCreate" ->
                   IF frame_input.kind # "EOFCreate"
                   THEN Panic(popped, "FrameInput::EofCreate expected")
                   ELSE LET o == Inspector_eofcreate_end(insp, frame_input, frame_output.outcome, c)
                        IN [ctx |-> popped, panic |-> FALSE,
                            frame_output |-> [frame_output EXCEPT !.outcome = o],
                            ev |-> <<PostEv("eofcreate_end", frame_input, frame_output.outcome, o)>>]

\* a faulty initialize_interp: the hook is handed a copy of the interpreter
Faulty_initialize_interp(ctx, interp, c) ==
    LET i == Inspector_initialize_interp(ctx.inspector, interp, c)
    IN [interp |-> interp,
        ev |-> <<[ev |-> "initialize_interp", result |-> i.instruction_result]>>]

initialize_interp(ctx, interp, c) ==
    LET i == Inspector_initialize_interp(ctx.inspector, interp, c)
    IN [interp |-> i,
        ev |-> <<[ev |-> "initialize_interp", result |-> i.instruction_result]>>]

\* a faulty step: the hook is handed a copy of the interpreter
Faulty_step(ctx, interp, c) ==
    LET i == Inspector_step(ctx.inspector, interp, c)
    IN [interp |-> interp,
        ev |-> <<[ev |-> "step", pc |-> interp.pc, left |-> i.pc,
                  result |-> i.instruction_result]>>]

step(ctx, interp, c) ==
    LET i == Inspector_step(ctx.inspector, interp, c)
    IN [interp |-> i,
        ev |-> <<[ev |-> "step", pc |-> interp.pc, left |-> i.pc,
                  result |-> i.instruction_result]>>]

\* a faulty step_end: the hook is passed over once the instruction has halted
Faulty_step_end(ctx, interp, c) ==
    IF interp.instruction_result # "Continue" THEN [interp |-> interp, ev |-> <<>>]
    ELSE LET i == Inspector_step_end(ctx.inspector, interp, c)
         IN [interp |-> i,
             ev |-> <<[ev |-> "step_end", pc |-> interp.pc,
                       given |-> interp.instruction_result,
                       result |-> i.instruction_result]>>]

step_end(ctx, interp, c) ==
    LET i == Inspector_step_end(ctx.inspector, interp, c)
    IN [interp |-> i,
        ev |-> <<[ev |-> "step_end", pc |-> interp.pc, given |-> interp.instruction_result,
                  result |-> i.instruction_result]>>]

inspector_log(ctx, interp, log, c) ==
    LET i == Inspector_log(ctx.inspector, interp, c)
    IN [interp |-> i,
        ev |-> <<[ev |-> "log", log |-> log, result |-> i.instruction_result]>>]

inspector_selfdestruct(ctx, contract, target, value) ==
    [ev |-> <<[ev |-> "selfdestruct", contract |-> contract, target |-> target,
               value |-> value]>>]

----------------------------------------------------------------------------
(* The base instruction table (table::make_instruction_table) and the      *)
(* base handlers the model dispatches.  b is what the handler meets:       *)
(* "ok", or "fail" for a handler that halts with an error result.          *)

LOG0 == 160
LOG1 == 161
LOG2 == 162
LOG3 == 163
LOG4 == 164
SELFDESTRUCT == 255
STOP == 0
ADD == 1
EOFCREATE == 236
CREATE == 240
CALL == 241

LogOps == {LOG0, LOG1, LOG2, LOG3, LOG4}
CallOps == {CALL, CREATE, EOFCREATE}
\* the opcodes the modelled bytecode holds
Ops == {STOP, ADD, LOG2, SELFDESTRUCT, CALL, CREATE}
BaseChoices == {"ok", "fail"}
\* "silent": a handler that completes and leaves no record in the journal,
\* which the journal's guarantees exclude
BrokenBaseChoices == BaseChoices \cup {"silent"}

\* a faulty relative_jump: the offset's sign is lost
Faulty_relative_jump(interp, offset) == [interp EXCEPT !.pc = @ + 1]

relative_jump(interp, offset) == [interp EXCEPT !.pc = @ + offset]

BaseEv(op, interp, after) ==
    [ev |-> "base", op |-> op, pc |-> interp.pc, result |-> after.instruction_result]

Halt(interp, host, op, result) ==
    LET after == [interp EXCEPT !.instruction_result = result]
    IN [interp |-> after, host |-> host, ev |-> <<BaseEv(op, interp, after)>>]

\* instructions::host::log::<N>
log(n, interp, host, b, address) ==
    IF b = "fail" THEN Halt(interp, host, LOG0 + n, "OutOfGas")
    ELSE IF b = "silent"
    THEN [interp |-> interp, host |-> host, ev |-> <<BaseEv(LOG0 + n, interp, interp)>>]
    ELSE LET l == [address |-> address, topics |-> n, data |-> Len(logs(host))]
         IN [interp |-> interp, host |-> Host_log(host, l).ctx,
             ev |-> <<BaseEv(LOG0 + n, interp, interp)>>]

\* instructions::host::selfdestruct
selfdestruct(interp, host, b, address) ==
    IF b = "fail" THEN Halt(interp, host, SELFDESTRUCT, "StateChangeDuringStaticCall")
    ELSE IF b = "silent" THEN Halt(interp, host, SELFDESTRUCT, "SelfDestruct")
    ELSE Halt(interp, Host_selfdestruct(host, address, "B").ctx, SELFDESTRUCT, "SelfDestruct")

\* main_table[op]
main_table(op, interp, host, b, address) ==
    CASE op = STOP -> Halt(interp, host, op, "Stop")
      [] op = ADD ->
            [interp |-> interp, host |-> host, ev |-> <<BaseEv(op, interp, interp)>>]
      [] op \in LogOps -> log(op - LOG0, interp, host, b, address)
      [] op = SELFDESTRUCT -> selfdestruct(interp, host, b, address)
      [] op \in CallOps ->
            IF b = "fail" THEN Halt(interp, host, op, "OutOfGas")
            ELSE LET kind == CASE op = CALL -> "Call" [] op = CREATE -> "Create"
                               [] op = EOFCREATE -> "EOFCreate"
                     after == [interp EXCEPT !.instruction_result = "CallOrCreate",
                                             !.next_action = Some(kind)]
                 IN [interp |-> after, host |-> host, ev |-> <<BaseEv(op, interp, after)>>]
      [] OTHER -> Halt(interp, host, op, "OpcodeNotFound")

----------------------------------------------------------------------------
(* InspectorInstructionProvider::new and InspectorInstruction::exec.       *)
(* h holds the choices of the hooks: h.step, h.log, h.step_end.            *)

\* a faulty log wrapper: it hands over the first log of the list
Faulty_Wrapper_inspector_log(interpreter, host, prev_n, h, b, address) ==
    LET p == log(prev_n, interpreter, host, b, address)
    IN  IF p.interp.instruction_result = "Continue"
        THEN LET first_log == Head(logs(p.host))
                 l == inspector_log(p.host, p.interp, first_log, h.log)
             IN [interp |-> l.interp, host |-> p.host, ev |-> p.ev \o l.ev]
        ELSE p

\* a panic unwinding out of an instruction
Unwinds(r) == "panic" \in DOMAIN r

\* the log wrapper of the table; logs().last().unwrap() panics on an empty list
Wrapper_inspector_log(interpreter, host, prev_n, h, b, address) ==
    LET p == log(prev_n, interpreter, host, b, address)
    IN  IF p.interp.instruction_result = "Continue"
        THEN IF logs(p.host) = <<>>
             THEN [interp |-> p.interp, host |-> p.host, ev |-> p.ev,
                   panic |-> "Option::unwrap on None"]
             ELSE LET last_log == Last(logs(p.host))
                      l == inspector_log(p.host, p.interp, last_log, h.log)
                  IN [interp |-> l.interp, host |-> p.host, ev |-> p.ev \o l.ev]
        ELSE p

\* a faulty SELFDESTRUCT entry: the balance-transfer arm swaps from and to
Faulty_Wrapper_selfdestruct(interp, host, h, b, address) ==
    LET p == selfdestruct(interp, host, b, address)
        segment == last_journal(p.host)
    IN  IF p.interp.instruction_result = "SelfDestruct" /\ segment # <<>>
        THEN LET e == Last(segment)
             IN IF e.entry = "AccountDestroyed"
                THEN [p EXCEPT !.ev = @ \o
                        inspector_selfdestruct(p.host, e.address, e.target, e.had_balance).ev]
                ELSE IF e.entry = "BalanceTransfer"
                THEN [p EXCEPT !.ev = @ \o
                        inspector_selfdestruct(p.host, e.to, e.from, e.balance).ev]
                ELSE p
        ELSE p

\* the SELFDESTRUCT entry of the table
Wrapper_selfdestruct(interp, host, h, b, address) ==
    LET p == selfdestruct(interp, host, b, address)
        segment == last_journal(p.host)
    IN  IF p.interp.instruction_result = "SelfDestruct"
        THEN IF segment # <<>> /\ Last(segment).entry = "AccountDestroyed"
             THEN LET e == Last(segment)
                  IN [p EXCEPT !.ev = @ \o
                        inspector_selfdestruct(p.host, e.address, e.target, e.had_balance).ev]
             ELSE IF segment # <<>> /\ Last(segment).entry = "BalanceTransfer"
             THEN LET e == Last(segment)
                  IN [p EXCEPT !.ev = @ \o
                        inspector_selfdestruct(p.host, e.from, e.to, e.balance).ev]
             ELSE p
        ELSE p

\* a faulty table: the LOG4 entry is not overwritten
Faulty_InspectorTable(i) ==
    CASE i = LOG0 -> [instruction |-> "inspector_log", n |-> 0]
      [] i = LOG1 -> [instruction |-> "inspector_log", n |-> 1]
      [] i = LOG2 -> [instruction |-> "inspector_log", n |-> 2]
      [] i = LOG3 -> [instruction |-> "inspector_log", n |-> 3]
      [] i = SELFDESTRUCT -> [instruction |-> "selfdestruct", n |-> 0]
      [] OTHER -> [instruction |-> "main_table", n |-> i]

\* the table new() builds: entry i wraps main_table[i], except the six
\* entries it overwrites
InspectorTable(i) ==
    CASE i = LOG0 -> [instruction |-> "inspector_log", n |-> 0]
      [] i = LOG1 -> [instruction |-> "inspector_log", n |-> 1]
      [] i = LOG2 -> [instruction |-> "inspector_log", n |-> 2]
      [] i = LOG3 -> [instruction |-> "inspector_log", n |-> 3]
      [] i = LOG4 -> [instruction |-> "inspector_log", n |-> 4]
      [] i = SELFDESTRUCT -> [instruction |-> "selfdestruct", n |-> 0]
      [] OTHER -> [instruction |-> "main_table", n |-> i]

\* (self.instruction)(interpreter, host)
Instruction(self, interpreter, host, h, b, address) ==
    CASE self.instruction = "inspector_log" ->
            Wrapper_inspector_log(interpreter, host, self.n, h, b, address)
      [] self.instruction = "selfdestruct" ->
            Wrapper_selfdestruct(interpreter, host, h, b, address)
      [] self.instruction = "main_table" ->
            main_table(self.n, interpreter, host, b, address)

\* a faulty exec: the instruction result is not looked at after step
Faulty_exec(self, interpreter, host, h, b, address) ==
    LET rewound == relative_jump(interpreter, -1)
        s == step(host, rewound, h.step)
        restored == relative_jump(s.interp, 1)
        x == Instruction(self, restored, host, h, b, address)
        e == step_end(x.host, x.interp, h.step_end)
    IN [interp |-> e.interp, host |-> x.host, ev |-> s.ev \o x.ev \o e.ev]

exec(self, interpreter, host, h, b, address) ==
    LET rewound == relative_jump(interpreter, -1)
        s == step(host, rewound, h.step)
    IN  IF s.interp.instruction_result # "Continue"
        THEN [interp |-> s.interp, host |-> host, ev |-> s.ev]
        ELSE LET restored == relative_jump(s.interp, 1)
                 x == Instruction(self, restored, host, h, b, address)
                 e == step_end(x.host, x.interp, h.step_end)
             IN  IF Unwinds(x) THEN [x EXCEPT !.ev = s.ev \o @]
                 ELSE [interp |-> e.interp, host |-> x.host, ev |-> s.ev \o x.ev \o e.ev]

\* one turn of the interpreter's dispatch loop: read the opcode, advance the
\* program counter, dispatch through the table
Dispatch(interpreter, host, op, h, b, address) ==
    exec(InspectorTable(op), relative_jump(interpreter, 1), host, h, b, address)

----------------------------------------------------------------------------
(* The engine's frame protocol (EthFrame), which the wrapper decorates.    *)
(* What the engine decides is the choice e.                                *)

EngineInitChoices ==
    {[gen |-> "Frame"], [gen |-> "Result", outcome |-> "success"]}
    \cup {[gen |-> "Err", err |-> x] : x \in Errors}

EngineChoices == {"ok"} \cup Errors

\* the contract a frame of this kind executes
AddressOf(kind) == IF kind = "Call" THEN "A" ELSE "C"

NewInterpreter == [pc |-> 0, instruction_result |-> "Continue", next_action |-> None]

EngineEv(name, arg, r, depth) == [ev |-> name, arg |-> arg, ret |-> r, depth |-> depth]

EngineEvs == {"EthFrame::init_first", "EthFrame::init", "EthFrame::run",
              "EthFrame::return_result"}

\* frame creation: an active frame (with a journal checkpoint), an immediate
\* result, or an error
EthFrame_make(name, ctx, frame_input, e) ==
    LET depth == Len(ctx.frame_input_stack)
    IN CASE e.gen = "Frame" ->
              LET f == [kind |-> frame_input.kind, id |-> frame_input.id,
                        input |-> frame_input, address |-> AddressOf(frame_input.kind), interpreter |-> NewInterpreter,
                        steps |-> 0]
              IN [ctx |-> [ctx EXCEPT !.inner.journal = Append(@, <<>>),
                                      !.inner.created =
                                          IF frame_input.kind = "Call" THEN @
                                          ELSE @ \cup {AddressOf(frame_input.kind)}],
                  ret |-> Ok(FrameGen(f)),
                  ev |-> <<EngineEv(name, frame_input, Ok([gen |-> "Frame"]), depth)>>]
         [] e.gen = "Result" ->
              [ctx |-> ctx,
               ret |-> Ok(ResultGen(FrameResult(frame_input.kind, e.outcome))),
               ev |-> <<EngineEv(name, frame_input,
                                 Ok(ResultGen(FrameResult(frame_input.kind, e.outcome))), depth)>>]
         [] e.gen = "Err" ->
              [ctx |-> ctx, ret |-> Err(e.err),
               ev |-> <<EngineEv(name, frame_input, Err(e.err), depth)>>]

EthFrame_init_first(ctx, frame_input, e) ==
    EthFrame_make("EthFrame::init_first", ctx, frame_input, e)

EthFrame_init(eth_frame, ctx, frame_input, e) ==
    EthFrame_make("EthFrame::init", ctx, frame_input, e)

OutcomeOf(instruction_result) ==
    IF instruction_result \in {"Stop", "Return", "SelfDestruct"} THEN "success" ELSE "revert"

\* the end of EthFrame::run, once the dispatch loop has left instruction_result
\* other than Continue: the pending frame request, or the frame's result
EthFrame_run(eth_frame, ctx, e, id) ==
    LET depth == Len(ctx.frame_input_stack)
        interp == eth_frame.interpreter
    IN  IF e # "ok"
        THEN [eth_frame |-> eth_frame, ret |-> Err(e),
              ev |-> <<EngineEv("EthFrame::run", [frame |-> eth_frame.id], Err(e), depth)>>]
        ELSE IF interp.next_action.tag = "Some"
        THEN LET init == FrameInput(interp.next_action.val, id, 0)
             IN [eth_frame |-> [eth_frame EXCEPT !.interpreter.next_action = None],
                 ret |-> Ok(FrameGen(init)),
                 ev |-> <<EngineEv("EthFrame::run", [frame |-> eth_frame.id], Ok(FrameGen(init)), depth)>>]
        ELSE LET res == FrameResult(eth_frame.kind, OutcomeOf(interp.instruction_result))
             IN [eth_frame |-> eth_frame, ret |-> Ok(ResultGen(res)),
                 ev |-> <<EngineEv("EthFrame::run", [frame |-> eth_frame.id], Ok(ResultGen(res)), depth)>>]

\* folding a child's result into the parent, which then continues
EthFrame_return_result(eth_frame, ctx, result, e) ==
    LET depth == Len(ctx.frame_input_stack)
    IN  IF e # "ok"
        THEN [eth_frame |-> eth_frame, ret |-> Err(e),
              ev |-> <<EngineEv("EthFrame::return_result", result, Err(e), depth)>>]
        ELSE [eth_frame |-> [eth_frame EXCEPT !.interpreter.instruction_result = "Continue",
                                              !.interpreter.next_action = None],
              ret |-> Ok("unit"),
              ev |-> <<EngineEv("EthFrame::return_result", result, Ok("unit"), depth)>>]

----------------------------------------------------------------------------
(* impl Frame for InspectorEthFrame.  ch holds the choices of the hooks    *)
(* and of the engine met on the way: ch.pre, ch.eng, ch.ii, ch.post.       *)

Self(eth_frame) == [eth_frame |-> eth_frame]

Panicked(ctx, ev, msg) == [ctx |-> ctx, panic |-> TRUE, msg |-> msg, ev |-> ev]

\* a faulty init_first: a spawned frame is returned as the engine made it
Faulty_init_first(ctx, frame_input, ch) ==
    LET s == frame_start(ctx, frame_input, ch.pre)
    IN  IF s.ret.tag = "Some"
        THEN [ctx |-> s.ctx, panic |-> FALSE, ret |-> Ok(ResultGen(s.ret.val)), ev |-> s.ev]
        ELSE
        LET r == EthFrame_init_first(s.ctx, s.frame_input, ch.eng)
        IN  IF r.ret.tag = "Ok" /\ r.ret.val.gen = "Result"
            THEN LET f == frame_end(r.ctx, r.ret.val.result, ch.post)
                 IN IF f.panic THEN Panicked(f.ctx, s.ev \o r.ev, f.msg)
                    ELSE [ctx |-> f.ctx, panic |-> FALSE,
                          ret |-> Ok(ResultGen(f.frame_output)),
                          ev |-> s.ev \o r.ev \o f.ev]
            ELSE IF r.ret.tag = "Ok" /\ r.ret.val.gen = "Frame"
            THEN [ctx |-> r.ctx, panic |-> FALSE,
                  ret |-> Ok(FrameGen(Self(r.ret.val.frame))), ev |-> s.ev \o r.ev]
            ELSE [ctx |-> r.ctx, panic |-> FALSE, ret |-> r.ret, ev |-> s.ev \o r.ev]

init_first(ctx, frame_input, ch) ==
    LET s == frame_start(ctx, frame_input, ch.pre)
    IN  IF s.ret.tag = "Some"
        THEN [ctx |-> s.ctx, panic |-> FALSE, ret |-> Ok(ResultGen(s.ret.val)), ev |-> s.ev]
        ELSE
        LET r == EthFrame_init_first(s.ctx, s.frame_input, ch.eng)
        IN  IF r.ret.tag = "Ok" /\ r.ret.val.gen = "Result"
            THEN LET f == frame_end(r.ctx, r.ret.val.result, ch.post)
                 IN IF f.panic THEN Panicked(f.ctx, s.ev \o r.ev, f.msg)
                    ELSE [ctx |-> f.ctx, panic |-> FALSE,
                          ret |-> Ok(ResultGen(f.frame_output)),
                          ev |-> s.ev \o r.ev \o f.ev]
            ELSE IF r.ret.tag = "Ok" /\ r.ret.val.gen = "Frame"
            THEN LET i == initialize_interp(r.ctx, r.ret.val.frame.interpreter, ch.ii)
                 IN [ctx |-> r.ctx, panic |-> FALSE,
                     ret |-> Ok(FrameGen(Self([r.ret.val.frame EXCEPT !.interpreter = i.interp]))),
                     ev |-> s.ev \o r.ev \o i.ev]
            ELSE [ctx |-> r.ctx, panic |-> FALSE, ret |-> r.ret, ev |-> s.ev \o r.ev]

final_return(ctx, result, ch) ==
    LET f == frame_end(ctx, result, ch.post)
    IN IF f.panic THEN Panicked(f.ctx, <<>>, f.msg)
       ELSE [ctx |-> f.ctx, panic |-> FALSE, result |-> f.frame_output,
             ret |-> Ok("unit"), ev |-> f.ev]

\* a faulty init: an immediate result goes through frame_end here as well
Faulty_init(self, ctx, frame_input, ch) ==
    LET s == frame_start(ctx, frame_input, ch.pre)
    IN  IF s.ret.tag = "Some"
        THEN [ctx |-> s.ctx, panic |-> FALSE, ret |-> Ok(ResultGen(s.ret.val)), ev |-> s.ev]
        ELSE
        LET r == EthFrame_init(self.eth_frame, s.ctx, s.frame_input, ch.eng)
        IN  IF r.ret.tag = "Ok" /\ r.ret.val.gen = "Result"
            THEN LET f == frame_end(r.ctx, r.ret.val.result, "keep")
                 IN [ctx |-> f.ctx, panic |-> FALSE,
                     ret |-> Ok(ResultGen(f.frame_output)), ev |-> s.ev \o r.ev \o f.ev]
            ELSE IF r.ret.tag = "Ok" /\ r.ret.val.gen = "Frame"
            THEN LET i == initialize_interp(r.ctx, r.ret.val.frame.interpreter, ch.ii)
                 IN [ctx |-> r.ctx, panic |-> FALSE,
                     ret |-> Ok(FrameGen(Self([r.ret.val.frame EXCEPT !.interpreter = i.interp]))),
                     ev |-> s.ev \o r.ev \o i.ev]
            ELSE [ctx |-> r.ctx, panic |-> FALSE, ret |-> r.ret, ev |-> s.ev \o r.ev]

init(self, ctx, frame_input, ch) ==
    LET s == frame_start(ctx, frame_input, ch.pre)
    IN  IF s.ret.tag = "Some"
        THEN [ctx |-> s.ctx, panic |-> FALSE, ret |-> Ok(ResultGen(s.ret.val)), ev |-> s.ev]
        ELSE
        LET r == EthFrame_init(self.eth_frame, s.ctx, s.frame_input, ch.eng)
        IN  IF r.ret.tag = "Ok" /\ r.ret.val.gen = "Frame"
            THEN LET i == initialize_interp(r.ctx, r.ret.val.frame.interpreter, ch.ii)
                 IN [ctx |-> r.ctx, panic |-> FALSE,
                     ret |-> Ok(FrameGen(Self([r.ret.val.frame EXCEPT !.interpreter = i.interp]))),
                     ev |-> s.ev \o r.ev \o i.ev]
            ELSE [ctx |-> r.ctx, panic |-> FALSE, ret |-> r.ret, ev |-> s.ev \o r.ev]

\* a faulty run: a frame's result goes through frame_end on the way out
Faulty_run(self, ctx, ch, id) ==
    LET r == EthFrame_run(self.eth_frame, ctx, ch.eng, id)
    IN  IF r.ret.tag = "Ok" /\ r.ret.val.gen = "Result"
        THEN LET f == frame_end(ctx, r.ret.val.result, "keep")
             IN [self |-> Self(r.eth_frame), ctx |-> f.ctx, ret |-> r.ret,
                 ev |-> r.ev \o f.ev]
        ELSE [self |-> Self(r.eth_frame), ctx |-> ctx, ret |-> r.ret, ev |-> r.ev]

run(self, ctx, ch, id) ==
    LET r == EthFrame_run(self.eth_frame, ctx, ch.eng, id)
    IN [self |-> Self(r.eth_frame), ctx |-> ctx, ret |-> r.ret, ev |-> r.ev]

\* a faulty return_result: the engine folds the result first, and the
\* post-hook runs afterwards whatever the engine returned
Faulty_return_result(self, ctx, result, ch) ==
    LET r == EthFrame_return_result(self.eth_frame, ctx, result, ch.eng)
        f == frame_end(ctx, result, ch.post)
    IN  IF f.panic THEN Panicked(f.ctx, r.ev, f.msg)
        ELSE [self |-> Self(r.eth_frame), ctx |-> f.ctx, panic |-> FALSE,
              ret |-> r.ret, ev |-> r.ev \o f.ev]

return_result(self, ctx, result, ch) ==
    LET f == frame_end(ctx, result, ch.post)
    IN  IF f.panic THEN Panicked(f.ctx, <<>>, f.msg)
        ELSE LET r == EthFrame_return_result(self.eth_frame, f.ctx, f.frame_output, ch.eng)
             IN [self |-> Self(r.eth_frame), ctx |-> f.ctx, panic |-> FALSE,
                 ret |-> r.ret, ev |-> f.ev \o r.ev]

----------------------------------------------------------------------------
(* The execution loop driving the frame protocol: init_first, then run,    *)
(* init and return_result on the top frame, then final_return.             *)

Init ==
    /\ context \in {[inspector |-> i, inner |-> NewInner, frame_input_stack |-> <<>>] :
                        i \in Observers}
    /\ frames = <<>>
    /\ phase = "start"
    /\ pending = None
    /\ ret = None
    /\ trace = <<>>
    /\ lastExec = <<>>
    /\ nreq = 0
    /\ hostCalls = <<>>

Top == Last(frames)

\* instructions dispatched so far
Executed == Cardinality({i \in 1..Len(trace) : trace[i].ev = "exec"})

PanicRet(r) == [tag |-> "Panic", msg |-> r.msg]

\* the wrapper panicked: the execution is over
Abort(r) ==
    /\ context' = r.ctx
    /\ trace' = trace \o r.ev
    /\ ret' = PanicRet(r)
    /\ phase' = "panic"
    /\ UNCHANGED <<frames, pending, nreq>>

InitFirst ==
    /\ phase = "start"
    /\ \E k \in Kinds, c \in PreChoices(context.inspector), e \in EngineInitChoices,
          ii \in InterpChoices(context.inspector), pc \in PostChoices(context.inspector) :
        LET r == init_first(context, FrameInput(k, 1, 0),
                            [pre |-> c, eng |-> e, ii |-> ii, post |-> pc])
        IN  IF r.panic THEN Abort(r)
            ELSE /\ context' = r.ctx
                 /\ trace' = trace \o r.ev
                 /\ ret' = r.ret
                 /\ nreq' = 1
                 /\ IF r.ret.tag = "Err"
                    THEN phase' = "error" /\ UNCHANGED <<frames, pending>>
                    ELSE IF r.ret.val.gen = "Frame"
                    THEN /\ frames' = <<r.ret.val.frame>>
                         /\ phase' = "run"
                         /\ UNCHANGED pending
                    ELSE /\ pending' = r.ret.val.result
                         /\ phase' = "done"
                         /\ UNCHANGED frames
    /\ UNCHANGED <<lastExec, hostCalls>>

\* one instruction of the top frame, dispatched through the instrumented table
Exec ==
    /\ phase = "run"
    /\ Top.eth_frame.interpreter.instruction_result = "Continue"
    /\ Executed < MaxSteps
    /\ \E op \in Ops, hs \in InterpChoices(context.inspector),
          hl \in InterpChoices(context.inspector),
          he \in InterpChoices(context.inspector), b \in BaseChoices :
        /\ op \in CallOps => nreq < MaxReq
        /\ LET f == Top.eth_frame
               r == Dispatch(f.interpreter, context, op,
                             [step |-> hs, log |-> hl, step_end |-> he], b, f.address)
           IN /\ frames' = [frames EXCEPT ![Len(frames)] =
                                Self([f EXCEPT !.interpreter = r.interp, !.steps = @ + 1])]
              /\ context' = r.host
              /\ lastExec' = r.ev
              /\ trace' = Append(trace, [ev |-> "exec", frame |-> f.id])
              /\ IF Unwinds(r)
                 THEN phase' = "panic" /\ ret' = [tag |-> "Panic", msg |-> r.panic]
                 ELSE UNCHANGED <<phase, ret>>
    /\ UNCHANGED <<pending, nreq, hostCalls>>

\* run returns: a frame request, the frame's result, or an error
Run ==
    /\ phase = "run"
    /\ Top.eth_frame.interpreter.instruction_result # "Continue"
    /\ \E e \in EngineChoices :
        LET r == run(Top, context, [eng |-> e], nreq + 1)
        IN  /\ context' = r.ctx
            /\ trace' = trace \o r.ev
            /\ ret' = r.ret
            /\ IF r.ret.tag = "Err"
               THEN phase' = "error" /\ UNCHANGED <<frames, pending, nreq>>
               ELSE IF r.ret.val.gen = "Frame"
               THEN /\ frames' = [frames EXCEPT ![Len(frames)] = r.self]
                    /\ pending' = r.ret.val.frame
                    /\ phase' = "init"
                    /\ nreq' = nreq + 1
               ELSE /\ frames' = Pop(frames)
                    /\ pending' = r.ret.val.result
                    /\ phase' = "result"
                    /\ UNCHANGED nreq
    /\ lastExec' = <<>>
    /\ UNCHANGED hostCalls

\* the top frame creates the frame run asked for
InitFrame ==
    /\ phase = "init"
    /\ \E c \in PreChoices(context.inspector), e \in EngineInitChoices,
          ii \in InterpChoices(context.inspector) :
        LET r == init(Top, context, pending, [pre |-> c, eng |-> e, ii |-> ii])
        IN  /\ context' = r.ctx
            /\ trace' = trace \o r.ev
            /\ ret' = r.ret
            /\ IF r.ret.tag = "Err"
               THEN phase' = "error" /\ UNCHANGED <<frames, pending>>
               ELSE IF r.ret.val.gen = "Frame"
               THEN /\ frames' = Append(frames, r.ret.val.frame)
                    /\ phase' = "run"
                    /\ pending' = None
               ELSE /\ pending' = r.ret.val.result
                    /\ phase' = "result"
                    /\ UNCHANGED frames
    /\ UNCHANGED <<lastExec, nreq, hostCalls>>

\* a result is handed to the frame now on top
ReturnResult ==
    /\ phase = "result"
    /\ frames # <<>>
    /\ \E pc \in PostChoices(context.inspector), e \in EngineChoices :
        LET r == return_result(Top, context, pending, [post |-> pc, eng |-> e])
        IN  IF r.panic THEN Abort(r)
            ELSE /\ context' = r.ctx
                 /\ trace' = trace \o r.ev
                 /\ ret' = r.ret
                 /\ UNCHANGED nreq
                 /\ IF r.ret.tag = "Err"
                    THEN phase' = "error" /\ UNCHANGED <<frames, pending>>
                    ELSE /\ frames' = [frames EXCEPT ![Len(frames)] = r.self]
                         /\ phase' = "run"
                         /\ pending' = None
    /\ UNCHANGED <<lastExec, hostCalls>>

\* the last frame's result is handed to the caller of the execution
FinalReturn ==
    /\ phase = "result"
    /\ frames = <<>>
    /\ \E pc \in PostChoices(context.inspector) :
        LET r == final_return(context, pending, [post |-> pc])
        IN  IF r.panic THEN Abort(r)
            ELSE /\ context' = r.ctx
                 /\ trace' = trace \o r.ev
                 /\ ret' = r.ret
                 /\ pending' = r.result
                 /\ phase' = "done"
                 /\ UNCHANGED <<frames, nreq>>
    /\ UNCHANGED <<lastExec, hostCalls>>

Next == InitFirst \/ Exec \/ Run \/ InitFrame \/ ReturnResult \/ FinalReturn

Spec == Init /\ [][Next]_vars

----------------------------------------------------------------------------
(* Host operations issued on the InspectorContext, as the instruction      *)
(* handlers of a running frame issue them.                                 *)

HostAddrs == {"A", "B"}

HostCall(op, args, r) ==
    /\ Len(hostCalls) < MaxHost
    /\ context' = r.ctx
    /\ hostCalls' = Append(hostCalls, [op |-> op, args |-> args, ret |-> r.ret])
    /\ UNCHANGED <<frames, phase, pending, ret, trace, lastExec, nreq>>

HostBlockHash ==
    \E n \in Words : HostCall("block_hash", <<n>>, Host_block_hash(context, n))

HostLoadAccountDelegated ==
    \E a \in HostAddrs :
        HostCall("load_account_delegated", <<a>>, Host_load_account_delegated(context, a))

HostBalance == \E a \in HostAddrs : HostCall("balance", <<a>>, Host_balance(context, a))

HostCode == HostCall("code", <<"A">>, Host_code(context, "A"))

HostCodeHash == HostCall("code_hash", <<"B">>, Host_code_hash(context, "B"))

HostSload == \E i \in Words : HostCall("sload", <<"A", i>>, Host_sload(context, "A", i))

HostSstore ==
    \E i \in Words, v \in Words :
        HostCall("sstore", <<"A", i, v>>, Host_sstore(context, "A", i, v))

HostTload == \E i \in Words : HostCall("tload", <<"A", i>>, Host_tload(context, "A", i))

HostTstore ==
    \E i \in Words : HostCall("tstore", <<"A", i, 1>>, Host_tstore(context, "A", i, 1))

HostLog ==
    LET l == [address |-> "A", topics |-> 1, data |-> Len(logs(context))]
    IN HostCall("log", <<l>>, Host_log(context, l))

HostSelfdestruct ==
    \E a \in HostAddrs :
        LET t == IF a = "A" THEN "B" ELSE "A"
        IN HostCall("selfdestruct", <<a, t>>, Host_selfdestruct(context, a, t))

NextHost ==
    \/ HostBlockHash \/ HostLoadAccountDelegated \/ HostBalance \/ HostCode
    \/ HostCodeHash \/ HostSload \/ HostSstore \/ HostTload \/ HostTstore
    \/ HostLog \/ HostSelfdestruct

SpecHost == Init /\ [][NextHost]_vars

----------------------------------------------------------------------------
(* Single operations of the adapter, of the instrumented table and of the   *)
(* frame wrapper, each applied to an adapter in any of its states.  pending *)
(* keeps the state the operation met, lastExec what it observed, ret how it *)
(* ended, nreq the number of operations applied.                            *)

MaxUnit == 2     \* operations applied in one SpecUnit behaviour

\* the frame_input_stack an operation may meet
UnitStacks ==
    {<<>>, <<FrameInput("Call", 1, 0)>>, <<FrameInput("Create", 1, 0)>>,
     <<FrameInput("EOFCreate", 1, 0)>>,
     <<FrameInput("Call", 1, 0), FrameInput("Create", 2, 0)>>}

\* the interpreter of the active frame: about to dispatch, halted, or
\* halted with a frame request
UnitInterpreters ==
    {[pc |-> 1, instruction_result |-> "Continue", next_action |-> None],
     [pc |-> 1, instruction_result |-> "Stop", next_action |-> None],
     [pc |-> 1, instruction_result |-> "CallOrCreate", next_action |-> Some("Create")]}

InitUnit ==
    /\ context \in {[inspector |-> i, inner |-> NewInner, frame_input_stack |-> s] :
                        i \in Observers, s \in UnitStacks}
    /\ frames \in {<<Self([kind |-> "Call", id |-> 1, input |-> FrameInput("Call", 1, 0),
                           address |-> "A", interpreter |-> i, steps |-> 0])>> :
                        i \in UnitInterpreters}
    /\ phase = "unit"
    /\ pending = None
    /\ ret = None
    /\ trace = <<>>
    /\ lastExec = <<>>
    /\ nreq = 0
    /\ hostCalls = <<>>

\* the operation named call is applied with arg and ends as r says
Unit(call, arg, r) ==
    /\ pending' = [call |-> call, arg |-> arg, stack |-> context.frame_input_stack,
                   interp |-> Top.eth_frame.interpreter]
    /\ nreq' = IF call = "table" THEN MaxUnit ELSE nreq + 1
    /\ lastExec' = r.ev
    /\ context' = r.ctx
    /\ frames' = [frames EXCEPT ![1].eth_frame.interpreter = r.interp]
    /\ ret' = r.ret
    /\ phase' = IF r.ret.tag = "Panic" THEN "panic" ELSE "unit"
    /\ UNCHANGED <<trace, hostCalls>>

UnitReady == phase = "unit" /\ nreq < MaxUnit

\* the dispatch loop hands one instruction of the bytecode to the table
UnitExec ==
    /\ UnitReady
    /\ Top.eth_frame.interpreter.instruction_result = "Continue"
    /\ \E op \in Ops \cup {LOG0, LOG4}, hs \in StepChoices(context.inspector),
          hl \in InterpChoices(context.inspector),
          he \in InterpChoices(context.inspector), b \in BrokenBaseChoices :
        LET r == exec(InspectorTable(op), Top.eth_frame.interpreter, context,
                      [step |-> hs, log |-> hl, step_end |-> he], b, "A")
        IN Unit("exec", op,
                [ctx |-> r.host, interp |-> r.interp, ev |-> r.ev,
                 ret |-> IF Unwinds(r) THEN [tag |-> "Panic", msg |-> r.panic]
                         ELSE Ok("unit")])

\* every entry of the table, executed once by an adapter as constructed;
\* nothing is applied after it
UnitTable ==
    /\ UnitReady
    /\ nreq = 0
    /\ Top.eth_frame.interpreter.instruction_result = "Continue"
    /\ \E i \in 0..255 :
        LET r == exec(InspectorTable(i), Top.eth_frame.interpreter, context,
                      [step |-> "keep", log |-> "keep", step_end |-> "keep"], "ok", "A")
        IN Unit("table", i, [ctx |-> r.host, interp |-> r.interp, ev |-> r.ev,
                             ret |-> Ok("unit")])

UnitFrameStart ==
    /\ UnitReady
    /\ \E k \in Kinds, c \in PreChoices(context.inspector) :
        LET frame_input == FrameInput(k, Len(context.frame_input_stack) + 1, 0)
            s == frame_start(context, frame_input, c)
        IN Unit("frame_start", frame_input,
                [ctx |-> s.ctx, interp |-> Top.eth_frame.interpreter, ev |-> s.ev,
                 ret |-> s.ret])

UnitFrameEnd ==
    /\ UnitReady
    /\ \E k \in Kinds, o \in Outcomes, c \in PostChoices(context.inspector) :
        LET f == frame_end(context, FrameResult(k, o), c)
        IN Unit("frame_end", FrameResult(k, o),
                [ctx |-> f.ctx, interp |-> Top.eth_frame.interpreter, ev |-> f.ev,
                 ret |-> IF f.panic THEN PanicRet(f) ELSE Ok(f.frame_output)])

UnitStep ==
    /\ UnitReady
    /\ \E c \in StepChoices(context.inspector) :
        LET r == step(context, Top.eth_frame.interpreter, c)
        IN Unit("step", c, [ctx |-> context, interp |-> r.interp, ev |-> r.ev,
                            ret |-> Ok("unit")])

UnitStepEnd ==
    /\ UnitReady
    /\ \E c \in InterpChoices(context.inspector) :
        LET r == step_end(context, Top.eth_frame.interpreter, c)
        IN Unit("step_end", c, [ctx |-> context, interp |-> r.interp, ev |-> r.ev,
                                ret |-> Ok("unit")])

UnitInitializeInterp ==
    /\ UnitReady
    /\ \E c \in InterpChoices(context.inspector) :
        LET r == initialize_interp(context, Top.eth_frame.interpreter, c)
        IN Unit("initialize_interp", c,
                [ctx |-> context, interp |-> r.interp, ev |-> r.ev, ret |-> Ok("unit")])

UnitInspectorLog ==
    /\ UnitReady
    /\ \E c \in InterpChoices(context.inspector) :
        LET l == [address |-> "A", topics |-> 0, data |-> 0]
            r == inspector_log(context, Top.eth_frame.interpreter, l, c)
        IN Unit("inspector_log", l,
                [ctx |-> context, interp |-> r.interp, ev |-> r.ev, ret |-> Ok("unit")])

UnitInspectorSelfdestruct ==
    /\ UnitReady
    /\ LET r == inspector_selfdestruct(context, "A", "B", 7)
       IN Unit("inspector_selfdestruct", <<"A", "B", 7>>,
               [ctx |-> context, interp |-> Top.eth_frame.interpreter, ev |-> r.ev,
                ret |-> Ok("unit")])

\* the Host operations, by name, with the arguments a handler passes
UnitHostOps ==
    {"block_hash", "load_account_delegated", "balance", "code", "code_hash", "sload",
     "sstore", "tload", "tstore", "log", "selfdestruct"}

UnitHostCall(ctx, op) ==
    CASE op = "block_hash" -> Host_block_hash(ctx, 1)
      [] op = "load_account_delegated" -> Host_load_account_delegated(ctx, "A")
      [] op = "balance" -> Host_balance(ctx, "A")
      [] op = "code" -> Host_code(ctx, "A")
      [] op = "code_hash" -> Host_code_hash(ctx, "A")
      [] op = "sload" -> Host_sload(ctx, "A", 0)
      [] op = "sstore" -> Host_sstore(ctx, "A", 0, 1)
      [] op = "tload" -> Host_tload(ctx, "A", 0)
      [] op = "tstore" -> Host_tstore(ctx, "A", 0, 1)
      [] op = "log" -> Host_log(ctx, [address |-> "A", topics |-> 0, data |-> 0])
      [] op = "selfdestruct" -> Host_selfdestruct(ctx, "A", "B")

UnitHost ==
    /\ UnitReady
    /\ \E op \in UnitHostOps :
        LET r == UnitHostCall(context, op)
        IN Unit("host", op, [ctx |-> r.ctx, interp |-> Top.eth_frame.interpreter,
                             ev |-> <<>>, ret |-> Ok(r.ret)])

\* Frame::run on the active frame, once its interpreter has halted
UnitRun ==
    /\ UnitReady
    /\ Top.eth_frame.interpreter.instruction_result # "Continue"
    /\ \E e \in EngineChoices :
        LET r == run(Top, context, [eng |-> e], 2)
        IN Unit("run", e, [ctx |-> r.ctx, interp |-> r.self.eth_frame.interpreter,
                           ev |-> r.ev, ret |-> r.ret])

NextUnit ==
    \/ UnitExec \/ UnitTable \/ UnitFrameStart \/ UnitFrameEnd \/ UnitStep \/ UnitStepEnd
    \/ UnitInitializeInterp \/ UnitInspectorLog \/ UnitInspectorSelfdestruct
    \/ UnitHost \/ UnitRun

SpecUnit == InitUnit /\ [][NextUnit]_vars

\* frame creation through the wrapper, init_first or init on the active
\* frame, met by an adapter in any state and followed by further operations
UnitInit ==
    /\ UnitReady
    /\ \E first \in BOOLEAN, k \in Kinds, c \in PreChoices(context.inspector),
          e \in EngineInitChoices, ii \in InterpChoices(context.inspector),
          pc \in PostChoices(context.inspector) :
        LET frame_input == FrameInput(k, Len(context.frame_input_stack) + 1, 0)
            ch == [pre |-> c, eng |-> e, ii |-> ii, post |-> pc]
            r == IF first THEN init_first(context, frame_input, ch)
                 ELSE init(Top, context, frame_input, ch)
        IN Unit(IF first THEN "init_first" ELSE "init", frame_input,
                [ctx |-> r.ctx, interp |-> Top.eth_frame.interpreter, ev |-> r.ev,
                 ret |-> IF r.panic THEN PanicRet(r) ELSE r.ret])

\* the uses of the adapter that follow a frame creation
UnitLater ==
    /\ nreq > 0
    /\ \/ UnitFrameStart \/ UnitFrameEnd \/ UnitStep \/ UnitStepEnd
       \/ UnitInitializeInterp \/ UnitInspectorLog \/ UnitInspectorSelfdestruct
       \/ UnitHost \/ UnitRun

NextUnitInit == UnitInit \/ UnitLater

SpecUnitInit == InitUnit /\ [][NextUnitInit]_vars

----------------------------------------------------------------------------
(* Reading the observations *)

IsPre(e) == e.ev \in PreHooks
IsPost(e) == e.ev \in PostHooks
IsEngine(e) == e.ev \in EngineEvs
Overrides(e) == IsPre(e) /\ e.ret.tag = "Some"

Count(P(_)) == Cardinality({i \in 1..Len(trace) : P(trace[i])})
NPre == Count(IsPre)
NPost == Count(IsPost)
NoOverride == \A i \in 1..Len(trace) : ~Overrides(trace[i])

\* the inputs of the frames entered and not yet exited after the first n
\* observations, the most recent last
RECURSIVE Open(_)
Open(n) ==
    IF n = 0 THEN <<>>
    ELSE LET e == trace[n]
             before == Open(n - 1)
         IN  IF IsPre(e) /\ ~Overrides(e) THEN Append(before, e.input)
             ELSE IF IsPost(e) /\ before # <<>> THEN Pop(before)
             ELSE before

\* every post-hook got the input of the most recently entered open frame
Lifo ==
    \A n \in 1..Len(trace) :
        IsPost(trace[n]) =>
            /\ Open(n - 1) # <<>>
            /\ trace[n].input = Last(Open(n - 1))

\* frame requests that have reached init_first or init
Handled == IF phase = "init" THEN nreq - 1 ELSE nreq

----------------------------------------------------------------------------
(* Properties *)

\* C1: in an execution without overrides the pre-hook has fired once per
\* frame request, every post-hook received the input of the most recently
\* entered frame that had not yet exited, and when the execution completes
\* the post-hook has fired once per request and frame_input_stack is empty.
C1_PrePostLifo ==
    NoOverride =>
        /\ NPre = Handled
        /\ Lifo
        /\ NPost <= NPre
        /\ phase = "done" =>
              /\ NPre = nreq
              /\ NPost = nreq
              /\ context.frame_input_stack = <<>>

C1_Witness ==
    /\ phase = "done"
    /\ NoOverride
    /\ nreq = 3
    /\ \E i \in 1..Len(trace) : trace[i].ev = "EthFrame::init" /\ trace[i].ret = Ok([gen |-> "Frame"])

HookOf(kind) ==
    CASE kind = "Call" -> "call" [] kind = "Create" -> "create" [] kind = "EOFCreate" -> "eofcreate"

\* C2: when the pre-hook of a request returns an override, init_first and
\* init return that outcome as a result of the request's kind; the engine's
\* frame creation and initialize_interp are not invoked for the request and
\* frame_input_stack is not pushed.
C2_OverrideIsTotal ==
    \A i \in 1..Len(trace) :
        Overrides(trace[i]) =>
            LET e == trace[i]
                result == FrameResult(e.given.kind, e.ret.val)
            IN  /\ e.ev = HookOf(e.given.kind)
                /\ i < Len(trace) =>
                      trace[i + 1].ev \notin
                          {"EthFrame::init_first", "EthFrame::init", "initialize_interp"}
                /\ (i = Len(trace) /\ ret.tag # "Panic") =>
                      /\ ret = Ok(ResultGen(result))
                      /\ pending = result
                      /\ phase = (IF e.given.id = 1 THEN "done" ELSE "result")
                      /\ Len(context.frame_input_stack) = e.depth
                      /\ \A j \in 1..Len(frames) : frames[j].eth_frame.id # e.given.id

C2_Witness ==
    /\ trace # <<>>
    /\ Overrides(Last(trace))
    /\ Last(trace).given.kind = "EOFCreate"
    /\ ret = Ok(ResultGen(FrameResult("EOFCreate", "revert")))

\* the first handing of a result to a parent frame after observation i
Delivery(i) ==
    {j \in (i + 1)..Len(trace) :
        /\ trace[j].ev = "EthFrame::return_result"
        /\ \A k \in (i + 1)..(j - 1) : trace[k].ev # "EthFrame::return_result"}

\* C3: for every overridden frame request, root or nested, the depth of
\* frame_input_stack just after the outcome has been handed to the parent
\* frame or to the top-level caller equals the depth just before the request.
C3_OverrideNetZero ==
    \A i \in 1..Len(trace) :
        Overrides(trace[i]) =>
            /\ (trace[i].given.id = 1 /\ phase = "done") =>
                  Len(context.frame_input_stack) = trace[i].depth
            /\ \A j \in Delivery(i) : trace[j].depth = trace[i].depth

\* the observations of the last instruction, by name
ExecNames == [i \in 1..Len(lastExec) |-> lastExec[i].ev]
ExecCount(name) == Cardinality({i \in 1..Len(lastExec) : lastExec[i].ev = name})

\* C4: for a dispatched instruction step runs once and first; when it leaves
\* a result other than Continue nothing else runs; otherwise the base
\* handler runs once and then step_end once, in the order step, base
\* handler, step_end.
C4_StepOrder ==
    lastExec # <<>> =>
        /\ lastExec[1].ev = "step"
        /\ ExecCount("step") = 1
        /\ IF lastExec[1].result # "Continue"
           THEN Len(lastExec) = 1
           ELSE /\ Len(lastExec) >= 3
                /\ lastExec[2].ev = "base"
                /\ ExecCount("base") = 1
                /\ lastExec[Len(lastExec)].ev = "step_end"
                /\ ExecCount("step_end") = 1

C4_Witness ==
    /\ Len(lastExec) = 1
    /\ lastExec[1].result = "Stop"
    /\ context.inspector = "steps"

\* C5: for a LOG instruction whose base handler leaves Continue the log hook
\* fires once, right after the base handler has appended the log, with the
\* last entry of the journal's log list; it does not fire when the base
\* handler leaves another result, and never without the base handler.
C5_LogHook ==
    /\ ExecCount("log") > 0 => (ExecCount("base") = 1 /\ lastExec[2].op \in LogOps)
    /\ (Len(lastExec) >= 2 /\ lastExec[2].ev = "base" /\ lastExec[2].op \in LogOps) =>
          IF lastExec[2].result = "Continue"
          THEN /\ ExecCount("log") = 1
               /\ lastExec[3].ev = "log"
               /\ logs(context) # <<>>
               /\ lastExec[3].log = Last(logs(context))
               /\ lastExec[3].log.topics = lastExec[2].op - LOG0
               /\ lastExec[3].log.data = Len(logs(context)) - 1
          ELSE ExecCount("log") = 0

C5_Witness ==
    /\ ExecCount("log") = 1
    /\ Len(logs(context)) = 2

\* C6: for a SELFDESTRUCT instruction whose base handler leaves SelfDestruct
\* the selfdestruct hook fires once with the (address, target, had_balance)
\* of the journal's last account-destroyed record or the (from, to, balance)
\* of its last balance-transfer record; it does not fire on another result.
C6_SelfdestructHook ==
    /\ ExecCount("selfdestruct") > 0 =>
          (ExecCount("base") = 1 /\ lastExec[2].op = SELFDESTRUCT)
    /\ (Len(lastExec) >= 2 /\ lastExec[2].ev = "base" /\ lastExec[2].op = SELFDESTRUCT) =>
          IF lastExec[2].result = "SelfDestruct"
          THEN /\ ExecCount("selfdestruct") = 1
               /\ lastExec[3].ev = "selfdestruct"
               /\ last_journal(context) # <<>>
               /\ LET e == Last(last_journal(context))
                      got == <<lastExec[3].contract, lastExec[3].target, lastExec[3].value>>
                  IN CASE e.entry = "AccountDestroyed" ->
                            got = <<e.address, e.target, e.had_balance>>
                       [] e.entry = "BalanceTransfer" -> got = <<e.from, e.to, e.balance>>
                       [] OTHER -> FALSE
          ELSE ExecCount("selfdestruct") = 0

C6_Witness ==
    /\ ExecCount("selfdestruct") = 1
    /\ Last(last_journal(context)).entry = "BalanceTransfer"
    /\ lastExec[3].contract = "A"
    /\ lastExec[3].target = "B"
    /\ lastExec[3].value = 7

ResultKindOf(hook) ==
    CASE hook = "call_end" -> "Call" [] hook = "create_end" -> "Create"
      [] hook = "eofcreate_end" -> "EOFCreate"

\* C7: the post-hook of a frame runs with that frame's input after the
\* frame's last instruction and before its outcome is delivered, and the
\* outcome delivered to the parent frame or to the top-level caller is the
\* one the post-hook left.
C7_PostHookThenDelivery ==
    \A n \in 1..Len(trace) :
        IsPost(trace[n]) =>
            LET e == trace[n]
                left == FrameResult(ResultKindOf(e.ev), e.outcome)
            IN  /\ \A m \in (n + 1)..Len(trace) :
                      trace[m].ev = "exec" => trace[m].frame # e.input.id
                /\ n > 1
                /\ LET p == trace[n - 1]
                       given == Ok(ResultGen(FrameResult(ResultKindOf(e.ev), e.given)))
                   IN \/ p.ev = "EthFrame::run" /\ p.arg.frame = e.input.id /\ p.ret = given
                      \/ /\ p.ev \in {"EthFrame::init_first", "EthFrame::init"}
                         /\ p.arg = e.input
                         /\ p.ret = given
                /\ IF n < Len(trace)
                   THEN /\ trace[n + 1].ev = "EthFrame::return_result"
                        /\ trace[n + 1].arg = left
                   ELSE /\ phase = "done"
                        /\ pending = left

\* the operation of the inner context that a recorded host call names
InnerCall(inner, call) ==
    LET a == call.args
    IN CASE call.op = "block_hash" -> Inner_block_hash(inner, a[1])
         [] call.op = "load_account_delegated" -> Inner_load_account_delegated(inner, a[1])
         [] call.op = "balance" -> Inner_balance(inner, a[1])
         [] call.op = "code" -> Inner_code(inner, a[1])
         [] call.op = "code_hash" -> Inner_code_hash(inner, a[1])
         [] call.op = "sload" -> Inner_sload(inner, a[1], a[2])
         [] call.op = "sstore" -> Inner_sstore(inner, a[1], a[2], a[3])
         [] call.op = "tload" -> Inner_tload(inner, a[1], a[2])
         [] call.op = "tstore" -> Inner_tstore(inner, a[1], a[2], a[3])
         [] call.op = "log" -> Inner_log(inner, a[1])
         [] call.op = "selfdestruct" -> Inner_selfdestruct(inner, a[1], a[2])

\* the inner context after the first n recorded calls were issued on it directly
RECURSIVE Direct(_)
Direct(n) == IF n = 0 THEN NewInner ELSE InnerCall(Direct(n - 1), hostCalls[n]).inner

\* C8: a sequence of Host operations on the InspectorContext returns what
\* the same sequence returns on the inner context and leaves the inner
\* context in the same state; the operations invoke no hook and leave the
\* rest of the adapter alone.
C8_HostTransparent ==
    /\ context.inner = Direct(Len(hostCalls))
    /\ \A n \in 1..Len(hostCalls) :
          hostCalls[n].ret = InnerCall(Direct(n - 1), hostCalls[n]).ret
    /\ hostCalls # <<>> => (trace = <<>> /\ lastExec = <<>> /\ context.frame_input_stack = <<>>)

C8_Witness ==
    /\ Len(hostCalls) = 3
    /\ hostCalls[1].op = "sstore"
    /\ hostCalls[1].args = <<"A", 0, 1>>
    /\ hostCalls[2].op = "sload"
    /\ hostCalls[2].ret = Some([data |-> 1])
    /\ hostCalls[3].op = "selfdestruct"

\* C9: an error the engine returns from frame creation, from run or from
\* folding a result is what the wrapper returns, unchanged, and no
\* initialize_interp and no post-hook runs after the failed operation.
C9_ErrorsPassThrough ==
    \A n \in 1..Len(trace) :
        (IsEngine(trace[n]) /\ trace[n].ret.tag = "Err") =>
            /\ n = Len(trace)
            /\ ret = trace[n].ret

C9_Witness ==
    /\ Len(trace) > 1
    /\ Last(trace).ev = "EthFrame::return_result"
    /\ Last(trace).ret = Err("db")
    /\ IsPost(trace[Len(trace) - 1])
    /\ ret = Err("db")

\* what holds of the observations when every hook keeps its default body
DefaultObserved ==
    /\ NoOverride
    /\ \A n \in 1..Len(trace) :
          /\ IsPre(trace[n]) =>
                /\ trace[n].input = trace[n].given
                /\ n < Len(trace)
                /\ trace[n + 1].ev \in {"EthFrame::init_first", "EthFrame::init"}
                /\ trace[n + 1].arg = trace[n].given
          /\ trace[n].ev = "initialize_interp" => trace[n].result = "Continue"
          /\ IsPost(trace[n]) =>
                LET made == FrameResult(ResultKindOf(trace[n].ev), trace[n].given)
                IN  /\ trace[n].outcome = trace[n].given
                    /\ trace[n - 1].ret = Ok(ResultGen(made))
                    /\ IF n < Len(trace)
                       THEN trace[n + 1].ev = "EthFrame::return_result" /\ trace[n + 1].arg = made
                       ELSE phase = "done" /\ pending = made
    /\ lastExec # <<>> =>
          /\ ExecNames \in {<<"step", "base", "step_end">>, <<"step", "base", "log", "step_end">>,
                            <<"step", "base", "selfdestruct", "step_end">>}
          /\ lastExec[1].result = "Continue"
          /\ lastExec[2].pc = lastExec[1].pc + 1
          /\ lastExec[2].pc = Top.eth_frame.steps
          /\ Last(lastExec).given = lastExec[2].result
          /\ Last(lastExec).result = lastExec[2].result

\* an instruction dispatched through the instrumented table does what the
\* base table's handler does from the same interpreter and host state
SameAsBase ==
    (trace' # trace /\ Last(trace').ev = "exec") =>
        \E b \in BaseChoices :
            LET f == Top.eth_frame
                m == main_table(lastExec'[2].op, relative_jump(f.interpreter, 1), context,
                                b, f.address)
            IN  /\ frames'[Len(frames)].eth_frame.interpreter = m.interp
                /\ context' = m.host

\* C10: with an observer that keeps every default hook body no frame is
\* overridden, inputs reach the engine and outcomes reach their receiver
\* unmodified, step leaves the instruction result alone, and every
\* instruction's base handler runs from the state the plain dispatch loop
\* would give it and leaves what the plain handler leaves.
C10_DefaultObserverIsTransparent ==
    /\ [](context.inspector = "default" => DefaultObserved)
    /\ [][context.inspector = "default" => SameAsBase]_vars

C10_Witness ==
    /\ context.inspector = "default"
    /\ phase = "done"
    /\ nreq = 2
    /\ Executed = 3
    /\ NPost = 2
    /\ logs(context) # <<>>

\* the observations where initialize_interp left a result other than Continue
Halting == {n \in 2..Len(trace) :
               trace[n].ev = "initialize_interp" /\ trace[n].result # "Continue"}

\* C11: when initialize_interp leaves the new frame's instruction result
\* other than Continue, no instruction of that frame is dispatched (no step
\* hook, no base handler): the frame's run returns its result at once.
C11_InitializeInterpSkips ==
    \A n \in Halting :
        LET id == trace[n - 1].arg.id
        IN  /\ \A m \in 1..Len(trace) : trace[m].ev = "exec" => trace[m].frame # id
            /\ (phase = "run" /\ Top.eth_frame.id = id) =>
                  /\ lastExec = <<>>
                  /\ Top.eth_frame.interpreter.instruction_result = trace[n].result
            /\ n < Len(trace) =>
                  /\ trace[n + 1].ev = "EthFrame::run"
                  /\ trace[n + 1].arg.frame = id
                  /\ trace[n + 1].ret.tag = "Ok" => trace[n + 1].ret.val.gen = "Result"

C11_Witness ==
    /\ phase = "done"
    /\ \E n \in Halting :
          /\ trace[n - 1].arg.id = 2
          /\ trace[n + 1].ev = "EthFrame::run"
          /\ trace[n + 1].ret.tag = "Ok"

\* the post-hook invocations that received the input of frame id
PostsOf(id) == {n \in 1..Len(trace) : IsPost(trace[n]) /\ trace[n].input.id = id}

\* the overridden requests made by a running frame
NestedOverrides == {i \in 2..Len(trace) : Overrides(trace[i]) /\ trace[i].given.id > 1}

\* C12: after the pre-hook overrides a nested request no post-hook is invoked
\* for that request: the outcome goes to the parent as it is; the parent's
\* post-hook fires once, later, with the parent's input and the result the
\* parent's own run produced.
C12_NestedOverrideHooks ==
    \A i \in NestedOverrides :
        LET parent == trace[i - 1].arg.frame
        IN  /\ i < Len(trace) => ~IsPost(trace[i + 1])
            /\ \A n \in PostsOf(parent) :
                  /\ n > i + 1
                  /\ trace[n - 1].ev = "EthFrame::run"
                  /\ trace[n - 1].arg.frame = parent
                  /\ trace[n - 1].ret =
                        Ok(ResultGen(FrameResult(ResultKindOf(trace[n].ev), trace[n].given)))
            /\ Cardinality(PostsOf(parent)) <= 1
            /\ phase = "done" => Cardinality(PostsOf(parent)) = 1

\* the engine resolved the request of observation n at once, with a result
Immediate(n) ==
    /\ trace[n].ev \in {"EthFrame::init_first", "EthFrame::init"}
    /\ trace[n].ret.tag = "Ok"
    /\ trace[n].ret.val.gen = "Result"

\* the post-hook is the next observation, with the request's input and the
\* engine's result
PostFollows(n) ==
    /\ n < Len(trace)
    /\ IsPost(trace[n + 1])
    /\ trace[n + 1].input = trace[n].arg
    /\ ResultKindOf(trace[n + 1].ev) = trace[n].arg.kind
    /\ trace[n].ret = Ok(ResultGen(FrameResult(trace[n].arg.kind, trace[n + 1].given)))

\* C13 as stated: when the engine resolves a request that was not overridden
\* at once, init_first (root) and init (nested) have popped frame_input_stack
\* and invoked the post-hook with the result by the time they return.
C13_ImmediateResultAsStated ==
    \A n \in 1..Len(trace) :
        Immediate(n) =>
            /\ PostFollows(n)
            /\ n + 1 = Len(trace) =>
                  /\ Len(context.frame_input_stack) = trace[n].depth - 1
                  /\ ret = Ok(ResultGen(FrameResult(trace[n].arg.kind, trace[n + 1].outcome)))

\* C13: when the engine resolves a request that was not overridden at once,
\* init_first pops frame_input_stack and invokes the post-hook with the
\* result before it returns; init returns the engine's result as it is, with
\* the request's input still on top of frame_input_stack, and the pop and the
\* post-hook happen in the return_result that hands the result to the
\* parent, before the engine folds it.
C13_ImmediateResult ==
    \A n \in 1..Len(trace) :
        Immediate(n) =>
            IF trace[n].ev = "EthFrame::init_first"
            THEN /\ PostFollows(n)
                 /\ n + 1 = Len(trace)
                 /\ phase = "done"
                 /\ Len(context.frame_input_stack) = trace[n].depth - 1
                 /\ ret = Ok(ResultGen(FrameResult(trace[n].arg.kind, trace[n + 1].outcome)))
            ELSE IF n = Len(trace)
            THEN /\ phase = "result"
                 /\ ret = trace[n].ret
                 /\ pending = trace[n].ret.val.result
                 /\ Len(context.frame_input_stack) = trace[n].depth
                 /\ Last(context.frame_input_stack) = trace[n].arg
            ELSE /\ PostFollows(n)
                 /\ n + 2 <= Len(trace)
                 /\ trace[n + 2].ev = "EthFrame::return_result"
                 /\ trace[n + 2].depth = trace[n].depth - 1
                 /\ trace[n + 2].arg = FrameResult(trace[n].arg.kind, trace[n + 1].outcome)

C13_Witness ==
    /\ phase = "done"
    /\ \E n \in 1..Len(trace) :
          /\ Immediate(n)
          /\ trace[n].ev = "EthFrame::init"
          /\ PostFollows(n)
          /\ trace[n + 1].outcome # trace[n + 1].given

\* the engine spawned an active frame for the request of observation n
Spawned(n) ==
    /\ trace[n].ev \in {"EthFrame::init_first", "EthFrame::init"}
    /\ trace[n].ret = Ok([gen |-> "Frame"])

\* C14: for a request that is not overridden and gets an active frame,
\* initialize_interp runs once on that frame's interpreter, after the
\* request's pre-hook and the push onto frame_input_stack, and before any
\* instruction of the frame is dispatched.
C14_InitializeInterpOnce ==
    /\ \A n \in 1..Len(trace) :
          Spawned(n) =>
              /\ n > 1
              /\ IsPre(trace[n - 1])
              /\ ~Overrides(trace[n - 1])
              /\ trace[n - 1].input = trace[n].arg
              /\ trace[n].depth = trace[n - 1].depth + 1
              /\ n < Len(trace)
              /\ trace[n + 1].ev = "initialize_interp"
              /\ \A m \in 1..Len(trace) :
                    (trace[m].ev = "exec" /\ trace[m].frame = trace[n].arg.id) => m > n + 1
              /\ n + 1 = Len(trace) =>
                    /\ phase = "run"
                    /\ Top.eth_frame.id = trace[n].arg.id
                    /\ Top.eth_frame.interpreter.instruction_result = trace[n + 1].result
                    /\ Last(context.frame_input_stack) = trace[n].arg
    /\ \A m \in 1..Len(trace) :
          trace[m].ev = "initialize_interp" => (m > 1 /\ Spawned(m - 1))

C14_Witness ==
    /\ Len(trace) > 6
    /\ Last(trace).ev = "initialize_interp"
    /\ Spawned(Len(trace) - 1)
    /\ trace[Len(trace) - 1].ev = "EthFrame::init"
    /\ Len(frames) = 2
    /\ Len(context.frame_input_stack) = 2

\* an instruction was handed to the table entry's exec
Executing == "call" \in DOMAIN pending /\ pending.call \in {"exec", "table"}

Violating ==
    /\ "call" \in DOMAIN pending
    /\ pending.call = "frame_end"
    /\ \/ pending.stack = <<>>
       \/ Last(pending.stack).kind # pending.arg.kind

\* C16: frame_end called with an empty frame_input_stack, or with an outcome
\* whose kind differs from the popped input's kind, panics: it returns no
\* value, typed error or other, and invokes no post-hook.
C16_FrameEndPanics ==
    Violating =>
        /\ ret.tag = "Panic"
        /\ phase = "panic"
        /\ lastExec = <<>>
        /\ ret.msg = (IF pending.stack = <<>> THEN "Frame pushed"
                      ELSE CASE pending.arg.kind = "Call" -> "FrameInput::Call expected"
                             [] pending.arg.kind = "Create" -> "FrameInput::Create expected"
                             [] pending.arg.kind = "EOFCreate" -> "FrameInput::EofCreate expected")

C16_Witness ==
    /\ Violating
    /\ pending.stack = <<FrameInput("Call", 1, 0), FrameInput("Create", 2, 0)>>
    /\ pending.arg.kind = "EOFCreate"
    /\ ret = [tag |-> "Panic", msg |-> "FrameInput::EofCreate expected"]

\* the base handler of the instruction just executed completed with result
\* for one of the opcodes ops
Completed(ops, result) ==
    /\ Executing
    /\ Len(lastExec) >= 2
    /\ lastExec[2].ev = "base"
    /\ lastExec[2].op \in ops
    /\ lastExec[2].result = result

\* C17: a log instruction that completes with Continue and leaves the
\* journal's log list empty, and a self-destruct instruction that completes
\* with SelfDestruct and leaves the current change-log segment empty, both
\* end in a fatal failure of the layer instead of a silent continuation.
C17_JournalViolationsFatal ==
    /\ (Completed(LogOps, "Continue") /\ logs(context) = <<>>) => ret.tag = "Panic"
    /\ (Completed({SELFDESTRUCT}, "SelfDestruct") /\ last_journal(context) = <<>>) =>
          ret.tag = "Panic"

\* C18: the table has an entry at every index 0..255, each of which
\* UnitTable executes; the entry of an opcode other than LOG0..LOG4 and
\* SELFDESTRUCT runs the base table's handler of the same index, the entries
\* of LOG0..LOG4 and SELFDESTRUCT run the log and self-destruct wrappers, and
\* every entry runs between step and step_end.
C18_TableCoversAllOpcodes ==
    ("call" \in DOMAIN pending /\ pending.call = "table") =>
          LET i == pending.arg
              before == [context EXCEPT !.inner = NewInner]
              base == main_table(i, pending.interp, before, "ok", "A")
          IN  /\ lastExec[1].ev = "step"
              /\ lastExec[2].ev = "base"
              /\ lastExec[2].op = i
              /\ Last(lastExec).ev = "step_end"
              /\ Top.eth_frame.interpreter = base.interp
              /\ context = base.host
              /\ ExecNames =
                    (IF i \in LogOps THEN <<"step", "base", "log", "step_end">>
                     ELSE IF i = SELFDESTRUCT
                     THEN <<"step", "base", "selfdestruct", "step_end">>
                     ELSE <<"step", "base", "step_end">>)
              /\ i \in LogOps => lastExec[3].log.topics = i - LOG0
              /\ InspectorTable(i) =
                    (IF i \in LogOps THEN [instruction |-> "inspector_log", n |-> i - LOG0]
                     ELSE IF i = SELFDESTRUCT THEN [instruction |-> "selfdestruct", n |-> 0]
                     ELSE [instruction |-> "main_table", n |-> i])

C18_Witness ==
    /\ "call" \in DOMAIN pending
    /\ pending.call = "table"
    /\ pending.arg = LOG4
    /\ ExecNames = <<"step", "base", "log", "step_end">>
    /\ lastExec[3].log.topics = 4

\* the hooks observed by the operation just applied
HooksSeen(names) == {i \in 1..Len(lastExec) : lastExec[i].ev \in names}

\* C19: frame_input_stack is changed by frame_start, which pushes the input
\* when the pre-hook returns no override and leaves the stack alone when it
\* returns one, and by frame_end, which pops one input; the Host operations,
\* step, step_end, initialize_interp, inspector_log, inspector_selfdestruct,
\* an instruction executed through the table and run leave it as it was, and
\* run invokes no pre-hook and no post-hook.
C19_StackOwnership ==
    "call" \in DOMAIN pending =>
        LET stack == context.frame_input_stack
        IN  CASE pending.call = "frame_start" ->
                   /\ Len(lastExec) = 1
                   /\ IsPre(lastExec[1])
                   /\ IF ret.tag = "Some"
                      THEN stack = pending.stack
                      ELSE stack = Append(pending.stack, lastExec[1].input)
              [] pending.call = "frame_end" ->
                   IF pending.stack = <<>> THEN stack = <<>>
                   ELSE /\ stack = Pop(pending.stack)
                        /\ ret.tag = "Ok" =>
                              (Len(lastExec) = 1 /\ IsPost(lastExec[1])
                               /\ lastExec[1].input = Last(pending.stack))
              [] pending.call = "run" ->
                   /\ stack = pending.stack
                   /\ HooksSeen(PreHooks \cup PostHooks) = {}
                   /\ Len(lastExec) = 1
                   /\ lastExec[1].ev = "EthFrame::run"
              [] OTHER ->
                   /\ stack = pending.stack
                   /\ HooksSeen(PreHooks \cup PostHooks) = {}

C19_Witness ==
    /\ "call" \in DOMAIN pending
    /\ pending.call = "run"
    /\ pending.stack = <<FrameInput("Call", 1, 0), FrameInput("Create", 2, 0)>>
    /\ context.frame_input_stack = pending.stack
    /\ ret = Ok(ResultGen(FrameResult("Call", "success")))
    /\ nreq = 2

\* C20: in an execution driven through the frame protocol, whatever the
\* observer overrides, frame_end is never reached with an empty
\* frame_input_stack nor with an outcome of another kind than the popped
\* input: no operation of the protocol panics.
C20_NoContractViolation ==
    /\ phase # "panic"
    /\ ret.tag # "Panic"

\* the pre-hook of observation i changed the input it was handed and
\* returned no override
Mutating(i) ==
    /\ IsPre(trace[i])
    /\ ~Overrides(trace[i])
    /\ trace[i].input # trace[i].given

\* the post-hook invocations made for the result of request id: the result
\* its frame's run produced, or the result its creation produced at once
PostFor(id) ==
    {n \in 2..Len(trace) :
        /\ IsPost(trace[n])
        /\ \/ trace[n - 1].ev = "EthFrame::run" /\ trace[n - 1].arg.frame = id
           \/ /\ trace[n - 1].ev \in {"EthFrame::init_first", "EthFrame::init"}
              /\ trace[n - 1].arg.id = id}

\* C21: when a pre-hook mutates the frame input and returns no override, the
\* engine's frame creation receives the mutated input, the descriptor pushed
\* on frame_input_stack is that mutated input, and the post-hook invoked for
\* that request's result receives exactly that descriptor.
C21_MutatedInputSnapshot ==
    \A i \in 1..Len(trace) :
        Mutating(i) =>
            /\ i < Len(trace)
            /\ trace[i + 1].ev \in {"EthFrame::init_first", "EthFrame::init"}
            /\ trace[i + 1].arg = trace[i].input
            /\ i + 1 = Len(trace) =>
                  /\ Len(context.frame_input_stack) = trace[i].depth + 1
                  /\ Last(context.frame_input_stack) = trace[i].input
            /\ \A n \in PostFor(trace[i].given.id) : trace[n].input = trace[i].input

\* the last operation was an instruction handed to the table, it returned,
\* and its step hook left the result at Continue
Stepped ==
    /\ pending # None
    /\ pending.call = "exec"
    /\ ret.tag # "Panic"
    /\ lastExec # <<>>
    /\ lastExec[1].result = "Continue"

\* the hook the table's entry for op adds, and whether its condition holds
\* for what the base handler left
EntryHook(op) == IF op \in LogOps THEN "log" ELSE "selfdestruct"

EntryHookDue(op) ==
    IF op \in LogOps THEN lastExec[2].result = "Continue"
    ELSE /\ op = SELFDESTRUCT
         /\ lastExec[2].result = "SelfDestruct"
         /\ last_journal(context) # <<>>
         /\ Last(last_journal(context)).entry \in {"AccountDestroyed", "BalanceTransfer"}

\* the instruction result in force when step_end is reached
ResultBeforeStepEnd ==
    LET e == lastExec[Len(lastExec) - 1]
    IN IF e.ev = "selfdestruct" THEN lastExec[2].result ELSE e.result

\* C22: for an instruction whose step leaves Continue the hooks run in the
\* order step, base handler, log or selfdestruct hook (for a LOG0..LOG4 or
\* SELFDESTRUCT instruction whose condition holds), step_end; step_end runs
\* after the base handler whatever result the handler left, and is handed
\* that result.
C22_HookOrder ==
    Stepped =>
        /\ Len(lastExec) >= 3
        /\ lastExec[2].ev = "base"
        /\ lastExec[2].op = pending.arg
        /\ ExecNames =
              (IF pending.arg \in LogOps \cup {SELFDESTRUCT} /\ EntryHookDue(pending.arg)
               THEN <<"step", "base", EntryHook(pending.arg), "step_end">>
               ELSE <<"step", "base", "step_end">>)
        /\ Last(lastExec).given = ResultBeforeStepEnd

C22_Witness ==
    /\ Stepped
    /\ pending.arg = SELFDESTRUCT
    /\ ExecNames = <<"step", "base", "selfdestruct", "step_end">>
    /\ Last(lastExec).given = "SelfDestruct"

\* this step is an instruction handed to the table whose step hook leaves a
\* result other than Continue
HaltsInStep ==
    /\ nreq' # nreq
    /\ pending'.call = "exec"
    /\ lastExec'[1].result # "Continue"

CreationFailed ==
    /\ pending # None
    /\ pending.call \in {"init_first", "init"}
    /\ ret.tag = "Err"

\* sequence s is an initial part of sequence t
IsPrefix(s, t) == Len(s) <= Len(t) /\ SubSeq(t, 1, Len(s)) = s

====
